---- MODULE Spec2Model ----
(***************************************************************************)
(* Model of the notebook "7.5 Deep Learning methods for object detection". *)
(*                                                                         *)
(* The notebook's cells are the operations: the class registry load        *)
(* (class_names, COLORS), reading the image, the forward pass, and the     *)
(* detection loop that draws on image_copy.  The detection loop cell is    *)
(* run more than once (the assignment asks to "try different values" of    *)
(* the threshold), so the model runs it in successive passes over the same *)
(* network output.                                                         *)
(*                                                                         *)
(* The detection loop is an exercise with blanks (None).  The blanks are   *)
(* completed the way the ASSIGNMENT 2 text of the notebook states them:    *)
(* prediction = [not_used, category, score, x_ul, y_ul, x_br, y_br], the   *)
(* corners are the normalized coordinates times img_width / img_height,    *)
(* and a detection is shown only when its score is higher than a chosen    *)
(* threshold.  Everything else (the copy, the strict >, the two lookups,   *)
(* the int() conversions, the order of the drawing calls) is the code's.   *)
(*                                                                         *)
(* Numbers: a score is an integer number of hundredths; a category id and  *)
(* a normalized coordinate are dyadic fractions <<num, den>> (exact in     *)
(* floating point, so x * width is the exact product and int() truncates). *)
(* A file is a sequence of symbols, NL being the line break; a name is the *)
(* sequence of symbols of its line.  A color is an RGB triple.             *)
(***************************************************************************)
EXTENDS Integers, Sequences, FiniteSets, TLC

VARIABLES
    exists,        \* whether ./data/object_detection_classes_coco.txt exists
    file,          \* its content
    seed,          \* state of numpy's global generator when COLORS is drawn
    picture,       \* <<width, height>> of the image file on disk
    net_out,       \* what model.forward() returns for that image
    class_names,   \* list of names
    COLORS,        \* array of len(class_names) colors
    image,         \* reference to the image array (0: not yet read)
    image_width,
    image_height,
    output,        \* the detections, in the network's order
    heap,          \* array objects: heap[ref] = drawing calls applied to it
    image_copy,    \* reference to the annotated copy (0: none yet)
    threshold,     \* the threshold of the current pass
    i,             \* position of the detection loop (1-based)
    pc,            \* which cell / which point of the loop runs next
    runs           \* one record per pass of the detection loop cell

vars == << exists, file, seed, picture, net_out, class_names, COLORS, image,
           image_width, image_height, output, heap, image_copy, threshold,
           i, pc, runs >>

----------------------------------------------------------------------------
(* Bounds of the model *)

MaxDet == 2

MaxFileLen == 3

MaxSeed == 1

----------------------------------------------------------------------------
(* Input domains *)

NL == "\n"

Chars == {"a", NL}

Passes == {1, 2}

Seeds == 0 .. MaxSeed

\* every file of at most MaxFileLen symbols
AllFiles == UNION { [1 .. n -> Chars] : n \in 0 .. MaxFileLen }

\* two class files of the notebook's shape: without and with a final line break
RenderFiles == { <<"a", NL, "b">>, <<"a", NL, "b", NL>> }

\* the class file as far as the notebook shows it: the names at indices 40..60
\* are the ASSIGNMENT 1 expected output, the names before them are not shown
\* and are opaque symbols
CocoNames ==
    << "n0", "n1", "n2", "n3", "n4", "n5", "n6", "n7", "n8", "n9",
       "n10", "n11", "n12", "n13", "n14", "n15", "n16", "n17", "n18", "n19",
       "n20", "n21", "n22", "n23", "n24", "n25", "n26", "n27", "n28", "n29",
       "n30", "n31", "n32", "n33", "n34", "n35", "n36", "n37", "n38", "n39",
       "skateboard", "surfboard", "tennis racket", "bottle", "plate",
       "wine glass", "cup", "fork", "knife", "spoon", "bowl", "banana",
       "apple", "sandwich", "orange", "broccoli", "carrot", "hot dog",
       "pizza", "donut", "cake" >>

CocoFile ==
    [ k \in 1 .. (2 * Len(CocoNames) - 1) |->
        IF k % 2 = 1 THEN CocoNames[(k + 1) \div 2] ELSE NL ]

Scores == {30, 50, 90}

Thresholds == {30, 50}

Half == <<1, 2>>

Quarter == <<1, 4>>

ThreeQuarters == <<3, 4>>

Eighth == <<1, 8>>

OneBox == { << Quarter, Quarter, ThreeQuarters, ThreeQuarters >> }

Boxes == { << Quarter, Quarter, ThreeQuarters, ThreeQuarters >>,
           << Eighth, Quarter, Half, ThreeQuarters >>,
           << <<0, 1>>, Eighth, Quarter, <<1, 1>> >> }

\* prediction=[not_used,category,score,bbox_x_ul,bbox_y_ul,bbox_x_br,bbox_y_br]
\* (the category is a float holding a whole number: the fraction cat/1)
Prediction(cat, score, box) ==
    << 0, <<cat, 1>>, score, box[1], box[2], box[3], box[4] >>

Predictions(cats, scores, boxes) ==
    { Prediction(c, s, b) : c \in cats, s \in scores, b \in boxes }

Tensors(preds) == UNION { [1 .. n -> preds] : n \in 0 .. MaxDet }

----------------------------------------------------------------------------
(* Python's list and array indexing *)

InRange(n, k) == (-n <= k) /\ (k < n)

Item(seq, k) == seq[(IF k < 0 THEN k + Len(seq) ELSE k) + 1]

----------------------------------------------------------------------------
(* The class registry load *)

\* the positions of the line breaks of s
Breaks(s) == { k \in 1 .. Len(s) : s[k] = NL }

\* the position of the j-th line break of s
NthBreak(s, j) ==
    CHOOSE k \in Breaks(s) : Cardinality({ b \in Breaks(s) : b <= k }) = j

\* the j-th of the n pieces of s: what lies between the line breaks j-1 and j
Piece(s, j, n) ==
    SubSeq(s, IF j = 1 THEN 1 ELSE NthBreak(s, j - 1) + 1,
              IF j = n THEN Len(s) ELSE NthBreak(s, j) - 1)

\* str.splitlines() in place of split: no empty piece after the last line break
SplitLines(s) ==
    LET n == Cardinality(Breaks(s)) + 1
        m == IF Len(s) = 0 \/ s[Len(s)] = NL THEN n - 1 ELSE n
    IN  [ j \in 1 .. m |-> Piece(s, j, n) ]

\* f.read().split('\n'): one piece more than there are line breaks
Split(s) ==
    LET n == Cardinality(Breaks(s)) + 1
    IN  [ j \in 1 .. n |-> Piece(s, j, n) ]

\* the k-th number numpy's generator yields from state s, in [0, 255]
Draw(s, k) == ((s + 1) * (k + 7) * 37) % 256

\* np.random.uniform(0, 255, size=(n, 3))
Uniform(s, n) ==
    [ r \in 1 .. n |-> << Draw(s, 3 * r - 2), Draw(s, 3 * r - 1), Draw(s, 3 * r) >> ]

----------------------------------------------------------------------------
(* The detection loop's expressions *)

\* confidence = detection[2]   (the score of the prediction)
Confidence(detection) == detection[3]

AboveOrEqual(confidence, t) == confidence >= t

\* if confidence > <threshold>:
Above(confidence, t) == confidence > t

\* class_id = detection[1]
ClassId(detection) == detection[2]

\* int(class_id) for a fraction >= 0: truncation
IntOf(class_id) == class_id[1] \div class_id[2]

\* the index in class_names[int(class_id)-1]
NameIndex(class_id) == IntOf(class_id) - 1

\* the index in COLORS[int(class_id)]
ColorIndex(class_id) == IntOf(class_id)

\* both lookups of lines 268-269 succeed (else IndexError)
LookupsOk(names, colors, class_id) ==
    /\ InRange(Len(names), NameIndex(class_id))
    /\ InRange(Len(colors), ColorIndex(class_id))

\* int(q * n + add) for a fraction q >= 0: truncation
Pixel(q, n, add) == (q[1] * n + add * q[2]) \div q[2]

CornersSwapped(detection, w, h) ==
    [ ul |-> << Pixel(detection[4], h, 0), Pixel(detection[5], w, 0) >>,
      br |-> << Pixel(detection[6], h, 0), Pixel(detection[7], w, 0) >>,
      org |-> << Pixel(detection[4], h, 2), Pixel(detection[5], w, 30) >> ]

\* (int(box_x_ul), int(box_y_ul)), (int(box_x_br), int(box_y_br)) and the
\* text origin (int(box_x_ul+2), int(box_y_ul + 30)), where
\* box_x_* = x * image_width and box_y_* = y * image_height
Corners(detection, w, h) ==
    [ ul |-> << Pixel(detection[4], w, 0), Pixel(detection[5], h, 0) >>,
      br |-> << Pixel(detection[6], w, 0), Pixel(detection[7], h, 0) >>,
      org |-> << Pixel(detection[4], w, 2), Pixel(detection[5], h, 30) >> ]

\* text: the class name and the confidence value
Text(class_name, confidence) == << class_name, confidence >>

AnyColor(colors, class_id) == { colors[r] : r \in DOMAIN colors }

\* color = COLORS[int(class_id)]: the colors the lookup can give
ColorOf(colors, class_id) == { Item(colors, ColorIndex(class_id)) }

Alias(h, ref) == [ heap |-> h, ref |-> ref ]

\* image.copy(): a new array with the same content
Copy(h, ref) == [ heap |-> Append(h, h[ref]), ref |-> Len(h) + 1 ]

\* cv2.rectangle(img, pt1, pt2, color, thickness=2)
Rectangle(k, pt1, pt2, color) ==
    [ call |-> "rectangle", rec |-> k, pt1 |-> pt1, pt2 |-> pt2,
      text |-> << >>, color |-> color ]

\* cv2.putText(img, text, org, cv2.FONT_HERSHEY_SIMPLEX, 1, color, 2)
PutText(k, text, org, color) ==
    [ call |-> "putText", rec |-> k, pt1 |-> org, pt2 |-> org,
      text |-> text, color |-> color ]

----------------------------------------------------------------------------
(* Initial states: the inputs, nothing loaded yet *)

InitWith(files, pictures, preds) ==
    /\ \/ /\ exists = TRUE
          /\ file \in files
          /\ seed \in Seeds
          /\ picture \in pictures
          /\ net_out \in Tensors(preds[Len(Split(file))])
       \/ /\ exists = FALSE
          /\ file = << >>
          /\ seed = 0
          /\ picture \in pictures
          /\ net_out = << >>
    /\ class_names = << >>
    /\ COLORS = << >>
    /\ image = 0
    /\ image_width = 0
    /\ image_height = 0
    /\ output = << >>
    /\ heap = << >>
    /\ image_copy = 0
    /\ threshold = 0
    /\ i = 0
    /\ pc = "load"
    /\ runs = << >>

\* category ids 1..n for a registry of n names
RenderPreds == [ n \in Nat |-> Predictions(1 .. n, Scores, OneBox) ]

Init == InitWith(RenderFiles, { <<6, 4>> }, RenderPreds)

----------------------------------------------------------------------------
(* The cells *)

\* with open(...) as f: class_names = f.read().split('\n'); COLORS = ...
LoadCategories ==
    /\ pc = "load"
    /\ exists
    /\ class_names' = Split(file)
    /\ COLORS' = Uniform(seed, Len(class_names'))
    /\ pc' = "read"
    /\ UNCHANGED << exists, file, seed, picture, net_out, image, image_width,
                    image_height, output, heap, image_copy, threshold, i, runs >>

\* open() of a path that does not exist raises FileNotFoundError
LoadMissing ==
    /\ pc = "load"
    /\ ~ exists
    /\ pc' = "failed"
    /\ UNCHANGED << exists, file, seed, picture, net_out, class_names, COLORS, image,
                    image_width, image_height, output, heap, image_copy,
                    threshold, i, runs >>

\* image = cv2.imread(...); image_height, image_width, _ = image.shape
ReadImage ==
    /\ pc = "read"
    /\ heap' = << << >> >>
    /\ image' = 1
    /\ image_width' = picture[1]
    /\ image_height' = picture[2]
    /\ pc' = "forward"
    /\ UNCHANGED << exists, file, seed, picture, net_out, class_names, COLORS, output,
                    image_copy, threshold, i, runs >>

\* output = model.forward()
Forward ==
    /\ pc = "forward"
    /\ output' = net_out
    /\ pc' = "ready"
    /\ UNCHANGED << exists, file, seed, picture, net_out, class_names, COLORS, image,
                    image_width, image_height, heap, image_copy, threshold, i,
                    runs >>

\* image_copy = image.copy(), with the threshold written into the cell
BeginPass ==
    /\ pc \in {"ready", "shown", "raised"}
    /\ Len(runs) + 1 \in Passes
    /\ \E t \in Thresholds :
          /\ threshold' = t
          /\ heap' = Copy(heap, image).heap
          /\ image_copy' = Copy(heap, image).ref
          /\ runs' = Append(runs, [ threshold |-> t,
                                    copy |-> Copy(heap, image).ref,
                                    status |-> "running" ])
    /\ i' = 1
    /\ pc' = "loop"
    /\ UNCHANGED << exists, file, seed, picture, net_out, class_names, COLORS, image,
                    image_width, image_height, output >>

\* a detection at or below the threshold: skip
LoopSkip ==
    /\ pc = "loop"
    /\ i <= Len(output)
    /\ ~ Above(Confidence(output[i]), threshold)
    /\ i' = i + 1
    /\ UNCHANGED << exists, file, seed, picture, net_out, class_names, COLORS, image,
                    image_width, image_height, output, heap, image_copy,
                    threshold, pc, runs >>

\* a detection above the threshold: the rectangle, then the text
LoopDraw ==
    /\ pc = "loop"
    /\ i <= Len(output)
    /\ Above(Confidence(output[i]), threshold)
    /\ LookupsOk(class_names, COLORS, ClassId(output[i]))
    /\ LET detection == output[i]
           confidence == Confidence(detection)
           class_id == ClassId(detection)
           class_name == Item(class_names, NameIndex(class_id))
           box == Corners(detection, image_width, image_height)
       IN  \E color \in ColorOf(COLORS, class_id) :
             heap' = [ heap EXCEPT ![image_copy] =
                         @ \o << Rectangle(i, box.ul, box.br, color),
                                 PutText(i, Text(class_name, confidence),
                                         box.org, color) >> ]
    /\ i' = i + 1
    /\ UNCHANGED << exists, file, seed, picture, net_out, class_names, COLORS, image,
                    image_width, image_height, output, image_copy, threshold,
                    pc, runs >>

\* a detection above the threshold whose lookup raises IndexError: the cell
\* stops there, nothing is drawn for it
LoopIndexError ==
    /\ pc = "loop"
    /\ i <= Len(output)
    /\ Above(Confidence(output[i]), threshold)
    /\ ~ LookupsOk(class_names, COLORS, ClassId(output[i]))
    /\ pc' = "raised"
    /\ runs' = [ runs EXCEPT ![Len(runs)].status = "raised" ]
    /\ UNCHANGED << exists, file, seed, picture, net_out, class_names, COLORS, image,
                    image_width, image_height, output, heap, image_copy,
                    threshold, i >>

\* plt.imshow(image_copy) after the loop
Show ==
    /\ pc = "loop"
    /\ i > Len(output)
    /\ pc' = "shown"
    /\ runs' = [ runs EXCEPT ![Len(runs)].status = "shown" ]
    /\ UNCHANGED << exists, file, seed, picture, net_out, class_names, COLORS, image,
                    image_width, image_height, output, heap, image_copy,
                    threshold, i >>

Next ==
    \/ LoadCategories
    \/ LoadMissing
    \/ ReadImage
    \/ Forward
    \/ BeginPass
    \/ LoopSkip
    \/ LoopDraw
    \/ LoopIndexError
    \/ Show

Spec == Init /\ [][Next]_vars

\* the registry load on every small file
LoadPreds == [ n \in Nat |-> Predictions(1 .. n, {30, 90}, OneBox) ]

InitLoad == InitWith(AllFiles, { <<6, 4>> }, LoadPreds)

SpecLoad == InitLoad /\ [][Next]_vars

\* images of several sizes, boxes of several shapes
ScalePreds == [ n \in Nat |-> Predictions(1 .. n, {30, 90}, Boxes) ]

InitScale ==
    InitWith({ <<"a", NL, "b">> }, { <<640, 480>>, <<6, 4>>, <<5, 7>> }, ScalePreds)

SpecScale == InitScale /\ [][Next]_vars

\* the notebook's class file; categories 52 and 53 and the last one
CocoPreds == [ n \in Nat |-> Predictions({52, 53, n}, {50, 90}, OneBox) ]

InitCoco == InitWith({ CocoFile }, { <<640, 480>> }, CocoPreds)

SpecCoco == InitCoco /\ [][Next]_vars

----------------------------------------------------------------------------
(* What a pass of the detection loop left on its copy *)

Finished(r) == runs[r].status \in {"shown", "raised"}

Calls(r) == heap[runs[r].copy]

HasCall(r, k, call) ==
    \E j \in DOMAIN Calls(r) : Calls(r)[j].call = call /\ Calls(r)[j].rec = k

IsDrawn(r, k) == HasCall(r, k, "rectangle") /\ HasCall(r, k, "putText")

Rendered(r) == { k \in DOMAIN output : HasCall(r, k, "rectangle") }

\* the records above the threshold of pass r, in the order of the output
RECURSIVE AboveFrom(_, _)
AboveFrom(r, k) ==
    IF k > Len(output) THEN << >>
    ELSE (IF output[k][3] > runs[r].threshold THEN << k >> ELSE << >>)
         \o AboveFrom(r, k + 1)

NoneAbove(r) == \A k \in DOMAIN output : output[k][3] <= runs[r].threshold

----------------------------------------------------------------------------
(* The claims *)

\* C1: in a pass that has ended, a detection record is drawn (rectangle and
\* label) if and only if its confidence is strictly greater than the threshold.
C1_DrawnIffAbove ==
    \A r \in DOMAIN runs :
        Finished(r) =>
            \A k \in DOMAIN output :
                IsDrawn(r, k) <=> (output[k][3] > runs[r].threshold)

\* C1, the part the code keeps: a record at or below the threshold (equal
\* included) is never drawn and leaves no call on the annotated image.
C1_NotAboveNotDrawn ==
    \A r \in DOMAIN runs :
        \A k \in DOMAIN output :
            (output[k][3] <= runs[r].threshold) =>
                ~ HasCall(r, k, "rectangle") /\ ~ HasCall(r, k, "putText")

\* C2: with a registry whose entry at 0-based index 52 is "apple", a drawn
\* detection of category 52 has a label that contains "apple".
C2_Category52IsApple ==
    \A r \in DOMAIN runs :
        \A j \in DOMAIN Calls(r) :
            ( /\ Calls(r)[j].call = "putText"
              /\ Len(class_names) > 52
              /\ class_names[53] = << "apple" >>
              /\ output[Calls(r)[j].rec][2] = <<52, 1>> )
            => Calls(r)[j].text[1] = << "apple" >>

\* C3: the input image is never altered: it carries no drawing call at any
\* time, and the array drawn on is another array than the image, made before
\* the loop starts.
C3_ImageNeverAltered ==
    (image # 0) =>
        /\ heap[image] = << >>
        /\ (pc \in {"loop", "shown", "raised"}) =>
              /\ image_copy # image
              /\ image_copy \in DOMAIN heap
        /\ \A r \in DOMAIN runs : runs[r].copy # image

C3_Witness ==
    /\ pc = "shown"
    /\ Len(heap[image_copy]) >= 4
    /\ heap[image] = << >>

\* C4: a pass in which no record is above the threshold (the empty output
\* included) ends without error and its copy equals the input image: no
\* rectangle, no label.
C4_NoneAboveUnannotated ==
    \A r \in DOMAIN runs :
        (runs[r].status # "running" /\ NoneAbove(r)) =>
            /\ runs[r].status = "shown"
            /\ Calls(r) = heap[image]
            /\ Calls(r) = << >>

C4_Witness ==
    /\ Len(runs) = 2
    /\ runs[2].status = "shown"
    /\ NoneAbove(2)
    /\ Len(output) = 2
    /\ output[1][3] = runs[2].threshold
    /\ output[2][3] < runs[2].threshold

\* C5: for two passes over the same output with thresholds t1 <= t2, the
\* records rendered at t2 are among those rendered at t1, and no more numerous.
C5_ThresholdMonotone ==
    \A r1, r2 \in DOMAIN runs :
        (Finished(r1) /\ Finished(r2) /\ runs[r1].threshold <= runs[r2].threshold) =>
            /\ Rendered(r2) \subseteq Rendered(r1)
            /\ Cardinality(Rendered(r2)) <= Cardinality(Rendered(r1))

\* C6: two passes with the same image, output, threshold and registry leave
\* identical images and end the same way.
C6_Deterministic ==
    \A r1, r2 \in DOMAIN runs :
        (Finished(r1) /\ Finished(r2) /\ runs[r1].threshold = runs[r2].threshold) =>
            /\ Calls(r1) = Calls(r2)
            /\ runs[r1].status = runs[r2].status

C6_Witness ==
    /\ Len(runs) = 2
    /\ Finished(1)
    /\ Finished(2)
    /\ runs[1].threshold = runs[2].threshold
    /\ runs[1].copy # runs[2].copy
    /\ Len(Calls(2)) >= 4
    /\ Calls(2)[1].color # Calls(2)[3].color

\* C7 as stated: loading an existing empty file yields a registry of size
\* zero (no name, no color).
C7_EmptyFileSizeZero ==
    (exists /\ file = << >> /\ pc # "load") =>
        /\ pc # "failed"
        /\ Len(class_names) = 0
        /\ Len(COLORS) = 0

\* C7 amended: loading an existing empty file does not fail and yields a
\* registry of size one: the only name is the empty string, with one color.
C7_EmptyFileSizeOne ==
    (exists /\ file = << >> /\ pc # "load") =>
        /\ pc # "failed"
        /\ class_names = << << >> >>
        /\ Len(COLORS) = 1

C7_Witness ==
    /\ exists
    /\ file = << >>
    /\ pc = "read"
    /\ Len(class_names) = Len(COLORS)

\* C8: every drawn rectangle has the corners (x_min*W, y_min*H) and
\* (x_max*W, y_max*H) truncated to integers, x scaled by the width and y by the
\* height; with W=640, H=480 and box [0.25, 0.25, 0.75, 0.75] the corners are
\* (160,120) and (480,360).
C8_Truncated(p, q, n) == (p * q[2] <= q[1] * n) /\ (q[1] * n < (p + 1) * q[2])

C9_OnePassInOrder ==
    \A r \in DOMAIN runs :
        Finished(r) =>
            LET above == AboveFrom(r, 1)
            IN  /\ Len(Calls(r)) = 2 * Len(above)
                /\ \A j \in DOMAIN above :
                      /\ Calls(r)[2 * j - 1].call = "rectangle"
                      /\ Calls(r)[2 * j - 1].rec = above[j]
                      /\ Calls(r)[2 * j].call = "putText"
                      /\ Calls(r)[2 * j].rec = above[j]
                      /\ Calls(r)[2 * j].color = Calls(r)[2 * j - 1].color

\* C10: with N names and N colors, no category id in 1..N (N included) makes
\* the pass stop with an index out of range.
C10_NoIndexErrorInRange ==
    (pc = "raised" /\ Len(COLORS) = Len(class_names)) =>
        output[i][2] \notin { <<c, 1>> : c \in 1 .. Len(class_names) }

====
